---- MODULE Spec2Model ----
(***************************************************************************)
(* Network-genealogy inference of @truffle/db                              *)
(* (packages/db/src/project/migrate/networkGenealogies.ts).                *)
(*                                                                         *)
(* Two specifications share the variables of this module:                  *)
(*   SpecBuilder  the pure local builder internalInputs applied to every   *)
(*                bounded list of observations;                            *)
(*   Spec         the generator generateNetworkGenealogiesLoad, one step   *)
(*                per resumption (the code between two yields is atomic),  *)
(*                with the resource layer and the chain as environment.    *)
(*                                                                         *)
(* A stored Network is immutable, so its historicBlock is a function of    *)
(* its id (HeightOf, HashOf); an artifact observation that carries both    *)
(* `block` and `db.network` carries the block of that network.             *)
(***************************************************************************)
EXTENDS Integers, Sequences, FiniteSets, TLC

(* ---------------------------- bounds ---------------------------------- *)
NumNets == 3          \* stored networks 1..NumNets
MaxObs == 3           \* longest observation list given to the builder
MaxArtifacts == 2     \* longest artifact list given to the orchestrator
MaxCandidates == 3    \* longest candidate list a fetch returns
MaxFetches == 2       \* candidate fetches followed per findRelation call

(* ------------------------- data model --------------------------------- *)
NoNetwork == 0
NoBlock == 0

NetIds == 1..NumNets

\* historicBlock.height and historicBlock.hash of a stored network
HeightOf(n) == 50 + 50 * n
HashOf(n) == IF n % 2 = 1 THEN "0xaa" ELSE "0xbb"

Heights == {HeightOf(n) : n \in NetIds}
Hashes == {"0xaa", "0xbb"}

\* an element of artifactNetworks: N | undefined, both fields optional
UndefinedObservation == [defined |-> FALSE, block |-> NoBlock, network |-> NoNetwork]

ValidObservation(n) == [defined |-> TRUE, block |-> HeightOf(n), network |-> n]

Observations ==
  {UndefinedObservation}
    \cup {ValidObservation(n) : n \in NetIds}
    \cup {[defined |-> TRUE, block |-> NoBlock, network |-> NoNetwork]}
    \cup {[defined |-> TRUE, block |-> HeightOf(1), network |-> NoNetwork]}
    \cup {[defined |-> TRUE, block |-> NoBlock, network |-> 1]}

SeqsUpTo(S, k) == UNION {[1..m -> S] : m \in 0..k}

(* --------------------- internalInputs (pure) -------------------------- *)
\* the filter predicate: ({ block, db: { network } = {} } = {}) => block && network
isCompleteBlockOnly(o) == o.defined /\ o.block # NoBlock

isComplete(o) == o.defined /\ o.block # NoBlock /\ o.network # NoNetwork

\* Array.prototype.sort with (a, b) => a.block.height - b.block.height:
\* ascending, equal heights keep their input order
RECURSIVE insertByHeight(_, _)
insertByHeight(sorted, o) ==
  IF sorted = <<>> THEN <<o>>
  ELSE IF sorted[Len(sorted)].block - o.block <= 0 THEN Append(sorted, o)
  ELSE Append(insertByHeight(SubSeq(sorted, 1, Len(sorted) - 1), o), sorted[Len(sorted)])

RECURSIVE sortByHeightFrom(_, _)
sortByHeightFrom(sorted, rest) ==
  IF rest = <<>> THEN sorted
  ELSE sortByHeightFrom(insertByHeight(sorted, Head(rest)), Tail(rest))

sortByHeightUnsorted(s) == s

sortByHeight(s) == sortByHeightFrom(<<>>, s)

\* const networks = artifactNetworks.filter(...).sort(...).map(...)
networksOf(artifactNetworks) ==
  LET kept == sortByHeight(SelectSeq(artifactNetworks, isComplete))
  IN  [i \in 1..Len(kept) |-> kept[i].network]

\* networks.slice(1).reduce(..., {ancestor: networks[0], networkGenealogies: []})
RECURSIVE reduceEdgesSwapped(_, _, _)
reduceEdgesSwapped(acc, current, rest) ==
  IF rest = <<>> THEN acc
  ELSE reduceEdgesSwapped(Append(acc, [ancestor |-> Head(rest), descendant |-> current]),
                          Head(rest), Tail(rest))

RECURSIVE reduceEdges(_, _, _)
reduceEdges(acc, current, rest) ==
  IF rest = <<>> THEN acc
  ELSE reduceEdges(Append(acc, [ancestor |-> current, descendant |-> Head(rest)]),
                   Head(rest), Tail(rest))

UndefinedInputs ==
  [defined |-> FALSE, ancestor |-> NoNetwork, descendant |-> NoNetwork,
   networkGenealogies |-> <<>>]

\* if (networks.length < 1) return;
tooFewForAnEdge(networks) == Len(networks) < 2

tooFew(networks) == Len(networks) < 1

\* networks.slice(-1)[0]
lastOfSliceOne(networks) == networks[IF Len(networks) > 1 THEN 2 ELSE 1]

lastOf(networks) == networks[Len(networks)]

internalInputs(artifactNetworks) ==
  LET networks == networksOf(artifactNetworks)
  IN  IF tooFew(networks) THEN UndefinedInputs
      ELSE [defined |-> TRUE,
            ancestor |-> networks[1],
            descendant |-> lastOf(networks),
            networkGenealogies |-> reduceEdges(<<>>, networks[1], Tail(networks))]

(* ------------------- environment value spaces ------------------------- *)
\* an element of options.artifacts: `networks` may be absent, and
\* networks[networkId] may be undefined
ArtifactObservations ==
  {UndefinedObservation, [defined |-> TRUE, block |-> NoBlock, network |-> NoNetwork]}
    \cup {ValidObservation(n) : n \in NetIds}

Artifacts ==
  {[networks |-> FALSE, entry |-> UndefinedObservation]}
    \cup {[networks |-> TRUE, entry |-> o] : o \in ArtifactObservations}

\* candidate lists the resource layer returns: stored networks, each at most once
CandidateLists ==
  {c \in SeqsUpTo(NetIds, MaxCandidates) : \A i, j \in DOMAIN c : c[i] = c[j] => i = j}

\* what the caller resumes the generator with after an eth_getBlockByNumber
\* request: nothing, an error response (no result), result null (no block at
\* that height), or a block with a hash
ChainResponses ==
  {[kind |-> "none", hash |-> ""], [kind |-> "error", hash |-> ""],
   [kind |-> "notfound", hash |-> ""]}
    \cup {[kind |-> "block", hash |-> h] : h \in Hashes}

\* exclusion lists the resource layer answers with, given the list it was sent
\* and the candidates it returns: merged, replaced, or echoed
TriedLists(sent, cands) ==
  LET ids == {cands[i] : i \in DOMAIN cands}
  IN  {sent \cup ids, ids, sent}

NoResponse == [kind |-> "pending", hash |-> ""]

\* response && response.result && response.result.hash === candidate.historicBlock.hash
hashMatchesAnyBlock(response, candidate) == response.kind = "block"

hashMatches(response, candidate) ==
  /\ response.kind # "none"                        \* response
  /\ response.kind \notin {"error", "notfound"}    \* response.result
  /\ response.hash = HashOf(candidate)            \* hash === historicBlock.hash

UnsetCandidates == [set |-> FALSE, list |-> <<>>]

(* --------------------------- state ------------------------------------ *)
VARIABLES
  observations,   \* SpecBuilder: the list handed to internalInputs
  built,          \* SpecBuilder: [done, value] the builder's return value
  artifacts,      \* options.artifacts
  pc,             \* position of the generator: start, fetch, read, return, load, done, failed
  error,          \* what was thrown: none, destructure, notIterable, chain
  ancestor, descendant, networkGenealogies,   \* locals of generateNetworkGenealogiesLoad
  ancestorAncestor, descendantDescendant,
  relation, candidates, alreadyTried, result, \* locals of the running findRelation
  idx,            \* position of the for..of iterator in candidates
  fetchOutcome,   \* none, ok, failed: how the last fetch of this call ended
  lastResponse,   \* the last chain response this call was resumed with
  fetches, failedFetches, roundReads, noMatchRounds, \* counters of this call
  submitted,      \* [done, edges]: the list given to resources.load
  persisted,      \* [done, count]: the orchestrator's return value
  outstanding,    \* the requests yielded and not yet answered
  sentTried,      \* the exclusion list of the last fetch this call issued
  runs,           \* SpecConcurrent: the generators running side by side
  cells,          \* SpecConcurrent: the `alreadyTried` bindings they use
  onChain,        \* SpecConcurrent: the networks whose block the chain has
  pageSize        \* SpecConcurrent: candidates the resource layer returns at once

bvars == <<observations, built>>

cvars == <<runs, cells, onChain, pageSize>>

locals == <<relation, candidates, alreadyTried, result, idx, fetchOutcome,
            lastResponse, fetches, failedFetches, roundReads, noMatchRounds>>

ovars == <<artifacts, pc, error, ancestor, descendant, networkGenealogies,
           ancestorAncestor, descendantDescendant, locals, submitted, persisted,
           outstanding, sentTried>>

vars == <<bvars, ovars, cvars>>

\* values of the orchestrator's variables before the generator is started
IdleLocals ==
  /\ relation = "none"
  /\ candidates = UnsetCandidates
  /\ alreadyTried = {}
  /\ result = NoNetwork
  /\ idx = 0
  /\ fetchOutcome = "none"
  /\ lastResponse = NoResponse
  /\ fetches = 0 /\ failedFetches = 0 /\ roundReads = 0 /\ noMatchRounds = 0

IdleOrchestrator ==
  /\ pc = "start"
  /\ error = "none"
  /\ ancestor = NoNetwork /\ descendant = NoNetwork
  /\ networkGenealogies = <<>>
  /\ ancestorAncestor = NoNetwork /\ descendantDescendant = NoNetwork
  /\ IdleLocals
  /\ submitted = [done |-> FALSE, edges |-> <<>>]
  /\ persisted = [done |-> FALSE, count |-> 0]
  /\ outstanding = <<>>
  /\ sentTried = {}

IdleBuilder == built = [done |-> FALSE, value |-> UndefinedInputs]

IdleConcurrent == runs = <<>> /\ cells = <<>> /\ onChain = {} /\ pageSize = 0

(* ------------------------- SpecBuilder -------------------------------- *)
InitBuilder ==
  /\ observations \in SeqsUpTo(Observations, MaxObs)
  /\ IdleBuilder
  /\ artifacts = <<>>
  /\ IdleOrchestrator
  /\ IdleConcurrent

BuildLocal ==
  /\ ~built.done
  /\ built' = [done |-> TRUE, value |-> internalInputs(observations)]
  /\ UNCHANGED <<observations, ovars, cvars>>

NextBuilder == BuildLocal

SpecBuilder == InitBuilder /\ [][NextBuilder]_vars

(* ------------------ generateNetworkGenealogiesLoad -------------------- *)
\* artifacts.filter(({networks}) => networks && networks[networkId])
\*          .map(({networks}) => networks[networkId])
artifactNetworksOf(arts) ==
  LET kept == SelectSeq(arts, LAMBDA a : a.networks /\ a.entry.defined)
  IN  [i \in 1..Len(kept) |-> kept[i].entry]

\* if (ancestorAncestor) networkGenealogies.push({ancestor: ancestorAncestor, descendant: ancestor})
pushAncestorEdgeFirst(edges, found, anc) ==
  IF found # NoNetwork
    THEN <<[ancestor |-> found, descendant |-> anc]>> \o edges
    ELSE edges

pushAncestorEdge(edges, found, anc) ==
  IF found # NoNetwork
    THEN Append(edges, [ancestor |-> found, descendant |-> anc])
    ELSE edges

\* if (descendantDescendant) networkGenealogies.push({ancestor: descendant, descendant: descendantDescendant})
pushDescendantEdgeAlways(edges, desc, found) ==
  Append(edges, [ancestor |-> desc, descendant |-> found])

pushDescendantEdge(edges, desc, found) ==
  IF found # NoNetwork
    THEN Append(edges, [ancestor |-> desc, descendant |-> found])
    ELSE edges

(* ------------------------- requests ----------------------------------- *)
\* JSON.stringify(alreadyTried): the ids of the list, written out one after
\* the other (the list is kept as the set of its ids, written in ascending order)
stringifyInitial(tried) == <<>>

RECURSIVE stringify(_)
stringify(tried) ==
  IF tried = {} THEN <<>>
  ELSE LET first == CHOOSE x \in tried : \A y \in tried : x <= y
       IN  <<first>> \o stringify(tried \ {first})

\* the ids written in a list
Ids(cands) == {cands[i] : i \in DOMAIN cands}

\* resources.get("networks", network.id, gql`... ${query}(alreadyTried: ...)`)
getRequest(rel, tried) ==
  [type |-> "get", relation |-> rel, alreadyTried |-> stringify(tried), height |-> NoBlock]

\* {type: "web3", method: "eth_getBlockByNumber", params: [height, false]}
web3Request(candidate) ==
  [type |-> "web3", relation |-> "none", alreadyTried |-> <<>>, height |-> HeightOf(candidate)]

\* resources.load("networkGenealogies", networkGenealogies)
loadRequest ==
  [type |-> "load", relation |-> "none", alreadyTried |-> <<>>, height |-> NoBlock]

\* the generator runs only when it is resumed with the answer to the request
\* it yielded, and it yields one request at a time
answered == IF outstanding = <<>> THEN <<>> ELSE Tail(outstanding)

yield(request) == outstanding' = Append(answered, request)

\* counters of a call stop at MaxFetches where the number of rounds followed
\* is not bounded
count(n, bounded) == IF bounded \/ n < MaxFetches THEN n + 1 ELSE n

mayFetchAgain(bounded) == bounded => fetches < MaxFetches

\* entry of findRelation up to its first yield: the locals are initialised and
\* the first candidate fetch is issued
callFindRelation(rel) ==
  /\ relation' = rel
  /\ candidates' = UnsetCandidates
  /\ alreadyTried' = {}
  /\ result' = NoNetwork
  /\ idx' = 0
  /\ fetchOutcome' = "none"
  /\ lastResponse' = NoResponse
  /\ fetches' = 1 /\ failedFetches' = 0 /\ roundReads' = 0
  /\ noMatchRounds' = 0
  /\ pc' = "fetch"
  /\ yield(getRequest(rel, {}))
  /\ sentTried' = {}

\* the locals of findRelation are gone once the call has returned or thrown
\* out of a chain read
dropLocals ==
  /\ relation' = "none"
  /\ candidates' = UnsetCandidates
  /\ alreadyTried' = {}
  /\ result' = NoNetwork
  /\ idx' = 0
  /\ fetchOutcome' = "none"
  /\ lastResponse' = NoResponse
  /\ fetches' = 0 /\ failedFetches' = 0 /\ roundReads' = 0
  /\ noMatchRounds' = 0
  /\ sentTried' = {}

\* lines 39-48: collect, build, destructure, call findRelation("ancestor", ancestor)
Start ==
  /\ pc = "start"
  /\ LET inputs == internalInputs(artifactNetworksOf(artifacts))
     IN  IF ~inputs.defined
           THEN \* destructuring undefined throws
                /\ pc' = "failed"
                /\ error' = "destructure"
                /\ UNCHANGED <<ancestor, descendant, networkGenealogies, locals,
                               outstanding, sentTried>>
           ELSE /\ ancestor' = inputs.ancestor
                /\ descendant' = inputs.descendant
                /\ networkGenealogies' = inputs.networkGenealogies
                /\ callFindRelation("ancestor")
                /\ UNCHANGED error
  /\ UNCHANGED <<bvars, cvars, artifacts, ancestorAncestor, descendantDescendant,
                 submitted, persisted>>

(* --------------------------- findRelation ----------------------------- *)
\* while (!result && candidates.length > 0)
loopAgainNever(res, cands) == FALSE

loopAgainWhileNoResult(res, cands) == res = NoNetwork

loopAgain(res, cands) == res = NoNetwork /\ Len(cands) > 0

\* line 169 and, when the loop goes on, lines 126-150: the loop condition with
\* `res` the value of `result` and `tried` the value of `alreadyTried`
endOfRound(res, cands, tried, bounded) ==
  IF loopAgain(res, cands)
    THEN \* the next candidate fetch is issued
         /\ mayFetchAgain(bounded)
         /\ pc' = "fetch"
         /\ fetches' = count(fetches, bounded)
         /\ yield(getRequest(relation, tried))
         /\ sentTried' = Ids(getRequest(relation, tried).alreadyTried)
    ELSE /\ pc' = "return"
         /\ outstanding' = answered
         /\ UNCHANGED <<fetches, sentTried>>

\* lines 155-169 after the try/catch of a round: the for..of over candidates
\* starts; with `cands` the value of `candidates` and `tried` the value of
\* `alreadyTried` after the fetch
enterRound(cands, tried, bounded) ==
  IF ~cands.set
    THEN \* for (const candidate of undefined) throws
         /\ pc' = "failed"
         /\ error' = "notIterable"
         /\ outstanding' = answered
         /\ UNCHANGED <<idx, roundReads, fetches, sentTried>>
    ELSE IF cands.list = <<>>
      THEN \* no iteration; the loop condition is evaluated at once
           /\ idx' = 0
           /\ roundReads' = 0
           /\ endOfRound(result, cands.list, tried, bounded)
           /\ UNCHANGED error
      ELSE \* the chain read for the first candidate is issued
           /\ pc' = "read"
           /\ idx' = 1
           /\ roundReads' = 1
           /\ yield(web3Request(cands.list[1]))
           /\ UNCHANGED <<error, fetches, sentTried>>

\* lines 129-150: the fetch answers with {networks: cands, alreadyTried: tried}
fetchAnswer(cands, tried, bounded) ==
  /\ candidates' = [set |-> TRUE, list |-> cands]
  /\ alreadyTried' = tried
  /\ enterRound([set |-> TRUE, list |-> cands], tried, bounded)
  /\ fetchOutcome' = "ok"
  /\ UNCHANGED <<bvars, cvars, artifacts, ancestor, descendant, networkGenealogies,
                 ancestorAncestor, descendantDescendant, relation, result,
                 lastResponse, failedFetches, noMatchRounds,
                 submitted, persisted>>

FetchOk ==
  /\ pc = "fetch"
  /\ \E cands \in CandidateLists : \E tried \in TriedLists(alreadyTried, cands) :
       fetchAnswer(cands, tried, TRUE)

\* a fixed version of the catch block: a failed fetch leaves no candidates
fetchFailureEmpties(bounded) ==
  /\ fetchOutcome' = "failed"
  /\ failedFetches' = count(failedFetches, bounded)
  /\ candidates' = [set |-> TRUE, list |-> <<>>]
  /\ enterRound([set |-> TRUE, list |-> <<>>], alreadyTried, bounded)
  /\ UNCHANGED <<bvars, cvars, artifacts, ancestor, descendant, networkGenealogies,
                 ancestorAncestor, descendantDescendant, relation,
                 alreadyTried, result, lastResponse, noMatchRounds,
                 submitted, persisted>>

\* lines 151-153: the fetch throws; caught and logged, nothing is assigned
fetchFailure(bounded) ==
  /\ fetchOutcome' = "failed"
  /\ failedFetches' = count(failedFetches, bounded)
  /\ enterRound(candidates, alreadyTried, bounded)
  /\ UNCHANGED <<bvars, cvars, artifacts, ancestor, descendant, networkGenealogies,
                 ancestorAncestor, descendantDescendant, relation, candidates,
                 alreadyTried, result, lastResponse, noMatchRounds,
                 submitted, persisted>>

FetchFail ==
  /\ pc = "fetch"
  /\ fetchFailure(TRUE)

\* lines 158-169: the generator is resumed with the chain's response
readAnswer(response, bounded) ==
  LET candidate == candidates.list[idx]
      matched == hashMatches(response, candidate)
      newResult == IF matched THEN candidate ELSE result
  IN  /\ lastResponse' = response
      /\ result' = newResult
      /\ IF ~matched /\ idx < Len(candidates.list)
           THEN \* the chain read for the next candidate is issued
                /\ idx' = idx + 1
                /\ roundReads' = roundReads + 1
                /\ yield(web3Request(candidates.list[idx + 1]))
                /\ UNCHANGED <<pc, fetches, noMatchRounds, sentTried>>
           ELSE \* break, or candidates exhausted: the loop condition
                /\ noMatchRounds' = IF matched THEN noMatchRounds
                                               ELSE count(noMatchRounds, bounded)
                /\ endOfRound(newResult, candidates.list, alreadyTried, bounded)
                /\ UNCHANGED <<idx, roundReads>>
      /\ UNCHANGED <<bvars, cvars, artifacts, error, ancestor, descendant, networkGenealogies,
                     ancestorAncestor, descendantDescendant, relation, candidates,
                     alreadyTried, fetchOutcome, failedFetches, submitted, persisted>>

ReadResponse ==
  /\ pc = "read"
  /\ \E response \in ChainResponses : readAnswer(response, TRUE)

\* line 158: the request fails in transport; the generator is not resumed
\* with a value and nothing around the yield catches
ReadThrows ==
  /\ pc = "read"
  /\ pc' = "failed"
  /\ error' = "chain"
  /\ outstanding' = answered
  /\ dropLocals
  /\ UNCHANGED <<bvars, cvars, artifacts, ancestor, descendant, networkGenealogies,
                 ancestorAncestor, descendantDescendant, submitted, persisted>>

\* the load issued right after the ancestor search
ReturnAncestorLoads ==
  /\ pc = "return"
  /\ relation = "ancestor"
  /\ ancestorAncestor' = result
  /\ networkGenealogies' = pushAncestorEdge(networkGenealogies, result, ancestor)
  /\ submitted' = [done |-> TRUE,
                   edges |-> pushAncestorEdge(networkGenealogies, result, ancestor)]
  /\ pc' = "load"
  /\ yield(loadRequest)
  /\ dropLocals
  /\ UNCHANGED <<bvars, cvars, artifacts, error, ancestor, descendant, descendantDescendant,
                 persisted>>

\* line 171 and lines 48-57: findRelation("ancestor") returns, the edge is
\* pushed and findRelation("descendant", descendant) is called
ReturnAncestor ==
  /\ pc = "return"
  /\ relation = "ancestor"
  /\ ancestorAncestor' = result
  /\ networkGenealogies' = pushAncestorEdge(networkGenealogies, result, ancestor)
  /\ callFindRelation("descendant")
  /\ UNCHANGED <<bvars, cvars, artifacts, error, ancestor, descendant, descendantDescendant,
                 submitted, persisted>>

\* line 171 and lines 57-66: findRelation("descendant") returns, the edge is
\* pushed and resources.load("networkGenealogies", networkGenealogies) is issued
ReturnDescendant ==
  /\ pc = "return"
  /\ relation = "descendant"
  /\ descendantDescendant' = result
  /\ networkGenealogies' = pushDescendantEdge(networkGenealogies, descendant, result)
  /\ submitted' = [done |-> TRUE,
                   edges |-> pushDescendantEdge(networkGenealogies, descendant, result)]
  /\ pc' = "load"
  /\ yield(loadRequest)
  /\ dropLocals
  /\ UNCHANGED <<bvars, cvars, artifacts, error, ancestor, descendant, ancestorAncestor,
                 persisted>>

\* line 66: the load answers with one id per edge and the generator returns
LoadResponse ==
  /\ pc = "load"
  /\ persisted' = [done |-> TRUE, count |-> Len(submitted.edges)]
  /\ pc' = "done"
  /\ outstanding' = answered
  /\ UNCHANGED <<bvars, cvars, artifacts, error, ancestor, descendant, networkGenealogies,
                 ancestorAncestor, descendantDescendant, locals, submitted, sentTried>>

Init ==
  /\ observations = <<>>
  /\ IdleBuilder
  /\ artifacts \in SeqsUpTo(Artifacts, MaxArtifacts)
  /\ IdleOrchestrator
  /\ IdleConcurrent

Next ==
  \/ Start
  \/ FetchOk
  \/ FetchFail
  \/ ReadResponse
  \/ ReadThrows
  \/ ReturnAncestor
  \/ ReturnDescendant
  \/ LoadResponse

Spec == Init /\ [][Next]_vars

(* ------------- a resource layer that keeps its contract --------------- *)
\* findRelation depends on the artifacts only through the network it is
\* called with: one artifact with one valid observation
InitOneObservation ==
  /\ observations = <<>>
  /\ IdleBuilder
  /\ artifacts \in {<<[networks |-> TRUE, entry |-> ValidObservation(n)]>> : n \in NetIds}
  /\ IdleOrchestrator
  /\ IdleConcurrent

\* candidates outside the exclusion list that was sent
FreshCandidateLists(sent) == {c \in CandidateLists : Ids(c) \cap sent = {}}

\* exclusion lists that cover the list sent and the candidates returned
GrownTriedLists(sent, cands) == {sent \cup Ids(cands), NetIds}

\* every fetch succeeds and answers within the contract; the number of
\* rounds is not bounded
FetchFresh ==
  /\ pc = "fetch"
  /\ \E cands \in FreshCandidateLists(alreadyTried) :
       \E tried \in GrownTriedLists(alreadyTried, cands) :
         fetchAnswer(cands, tried, FALSE)

ReadResponseUnbounded ==
  /\ pc = "read"
  /\ \E response \in ChainResponses : readAnswer(response, FALSE)

NextTerminating ==
  \/ Start
  \/ FetchFresh
  \/ ReadResponseUnbounded
  \/ ReadThrows
  \/ ReturnAncestor
  \/ ReturnDescendant
  \/ LoadResponse

\* the generator is resumed whenever its request is answered
SpecTerminating == InitOneObservation /\ [][NextTerminating]_vars /\ WF_vars(NextTerminating)

(* -------- every fetch after a round without a match fails -------------- *)
\* answers of the chain that are not a block of the candidate's claimed hash
OtherResponses(candidate) ==
  {r \in ChainResponses : r.kind = "block" => r.hash # HashOf(candidate)}

FetchFirst ==
  /\ pc = "fetch"
  /\ noMatchRounds = 0
  /\ \E cands \in CandidateLists : \E tried \in TriedLists(alreadyTried, cands) :
       fetchAnswer(cands, tried, FALSE)

FetchFailsLater ==
  /\ pc = "fetch"
  /\ noMatchRounds >= 1
  /\ fetchFailure(FALSE)

ReadFirstRound ==
  /\ pc = "read"
  /\ noMatchRounds = 0
  /\ \E response \in ChainResponses : readAnswer(response, FALSE)

\* the chain keeps answering as it did in the round without a match
ReadSameHashes ==
  /\ pc = "read"
  /\ noMatchRounds >= 1
  /\ \E response \in OtherResponses(candidates.list[idx]) : readAnswer(response, FALSE)

ReadThrowsFirstRound ==
  /\ noMatchRounds = 0
  /\ ReadThrows

NextStale ==
  \/ Start
  \/ FetchFirst
  \/ FetchFailsLater
  \/ ReadFirstRound
  \/ ReadSameHashes
  \/ ReadThrowsFirstRound
  \/ ReturnAncestor
  \/ ReturnDescendant
  \/ LoadResponse

SpecStale == InitOneObservation /\ [][NextStale]_vars /\ WF_vars(NextStale)

(* ---------------- two computations side by side ----------------------- *)
\* Two runs of generateNetworkGenealogiesLoad, each for its own network, are
\* resumed in any order against a resource layer and a chain that are
\* stateless and deterministic.  A run is a record of the generator's locals;
\* its `alreadyTried` lives in the cell cellOf gives it.
Computations == 1..2

MaxSteps == 40

\* let alreadyTried (line 124) is declared inside findRelation: one binding
\* for each call
cellOfShared(i) == 1

cellOf(i) == i

\* the resource layer: the stored networks on the asked side of `network`
\* that are not excluded, nearest first, pageSize at a time, and the
\* exclusion list grown by them
possibleRelations(network, rel) ==
  {n \in NetIds : IF rel = "ancestor" THEN HeightOf(n) < HeightOf(network)
                                      ELSE HeightOf(n) > HeightOf(network)}

RECURSIVE nearestFirst(_, _)
nearestFirst(nets, network) ==
  IF nets = {} THEN <<>>
  ELSE LET first == CHOOSE x \in nets : \A y \in nets :
                      \/ HeightOf(x) < HeightOf(network) /\ HeightOf(y) <= HeightOf(x)
                      \/ HeightOf(x) > HeightOf(network) /\ HeightOf(x) <= HeightOf(y)
       IN  <<first>> \o nearestFirst(nets \ {first}, network)

layerAnswer(network, rel, sent, size) ==
  LET fresh == nearestFirst(possibleRelations(network, rel) \ sent, network)
      cands == SubSeq(fresh, 1, IF Len(fresh) < size THEN Len(fresh) ELSE size)
  IN  [networks |-> cands, alreadyTried |-> sent \cup Ids(cands)]

\* the chain: the block at a stored network's height has the network's hash
\* when the network is on this chain, and another hash otherwise
chainAnswer(candidate, chain) ==
  [kind |-> "block",
   hash |-> IF candidate \in chain THEN HashOf(candidate)
            ELSE IF HashOf(candidate) = "0xaa" THEN "0xbb" ELSE "0xaa"]

NewRun(network) ==
  [pc |-> "start", network |-> network, relation |-> "none", candidates |-> <<>>,
   result |-> NoNetwork, idx |-> 0, networkGenealogies |-> <<>>, requests |-> <<>>,
   persisted |-> 0]

\* findRelation(rel, run.network) up to its first yield
runCall(run, rel) ==
  [proc |-> [run EXCEPT !.pc = "fetch", !.relation = rel, !.candidates = <<>>,
                        !.result = NoNetwork, !.idx = 0,
                        !.requests = Append(run.requests, getRequest(rel, {}))],
   tried |-> {}]

\* line 169 onwards with `res` the value of `result`: the loop goes on with
\* the next fetch, or findRelation returns and the generator goes on to its
\* next yield
runEndOfRound(run, res, tried) ==
  IF loopAgain(res, run.candidates)
    THEN [proc |-> [run EXCEPT !.pc = "fetch", !.result = res,
                               !.requests = Append(run.requests,
                                                   getRequest(run.relation, tried))],
          tried |-> tried]
    ELSE IF run.relation = "ancestor"
      THEN runCall([run EXCEPT !.networkGenealogies =
                      pushAncestorEdge(run.networkGenealogies, res, run.network)],
                   "descendant")
      ELSE [proc |-> [run EXCEPT !.pc = "load", !.result = res,
                        !.networkGenealogies =
                          pushDescendantEdge(run.networkGenealogies, run.network, res),
                        !.requests = Append(run.requests, loadRequest)],
            tried |-> tried]

\* one resumption of a run whose `alreadyTried` has the value `tried`
runStep(run, tried, chain, size) ==
  IF run.pc = "start" THEN runCall(run, "ancestor")
  ELSE IF run.pc = "fetch"
    THEN LET sent == Ids(run.requests[Len(run.requests)].alreadyTried)
             answer == layerAnswer(run.network, run.relation, sent, size)
             fetched == [run EXCEPT !.candidates = answer.networks]
         IN  IF answer.networks = <<>>
               THEN runEndOfRound([fetched EXCEPT !.idx = 0], run.result,
                                  answer.alreadyTried)
               ELSE [proc |-> [fetched EXCEPT !.pc = "read", !.idx = 1,
                                 !.requests = Append(run.requests,
                                                     web3Request(answer.networks[1]))],
                     tried |-> answer.alreadyTried]
  ELSE IF run.pc = "read"
    THEN LET candidate == run.candidates[run.idx]
             matched == hashMatches(chainAnswer(candidate, chain), candidate)
         IN  IF ~matched /\ run.idx < Len(run.candidates)
               THEN [proc |-> [run EXCEPT !.idx = run.idx + 1,
                                 !.requests = Append(run.requests,
                                   web3Request(run.candidates[run.idx + 1]))],
                     tried |-> tried]
               ELSE runEndOfRound(run, IF matched THEN candidate ELSE run.result, tried)
  ELSE IF run.pc = "load"
    THEN [proc |-> [run EXCEPT !.pc = "done",
                               !.persisted = Len(run.networkGenealogies)],
          tried |-> tried]
  ELSE [proc |-> run, tried |-> tried]

\* the same run resumed until it is done, with nothing else running
RECURSIVE runAlone(_, _, _, _, _)
runAlone(run, tried, chain, size, fuel) ==
  IF run.pc = "done" \/ fuel = 0 THEN run
  ELSE LET next == runStep(run, tried, chain, size)
       IN  runAlone(next.proc, next.tried, chain, size, fuel - 1)

InitConcurrent ==
  /\ observations = <<>>
  /\ IdleBuilder
  /\ artifacts = <<>>
  /\ IdleOrchestrator
  /\ \E n1, n2 \in NetIds :
       /\ n1 # n2
       /\ runs = <<NewRun(n1), NewRun(n2)>>
  /\ cells = [i \in Computations |-> {}]
  /\ onChain \in SUBSET NetIds
  /\ pageSize \in 1..2

Resume(i) ==
  /\ runs[i].pc # "done"
  /\ LET next == runStep(runs[i], cells[cellOf(i)], onChain, pageSize)
     IN  /\ runs' = [runs EXCEPT ![i] = next.proc]
         /\ cells' = [cells EXCEPT ![cellOf(i)] = next.tried]
  /\ UNCHANGED <<bvars, ovars, onChain, pageSize>>

NextConcurrent == \E i \in Computations : Resume(i)

SpecConcurrent == InitConcurrent /\ [][NextConcurrent]_vars

(* ======================== properties ================================== *)
\* an observation that has both `block` and a resolved `network`
HasBlockAndNetwork(o) == o.defined /\ o.block # NoBlock /\ o.network # NoNetwork

ValidIn(list) == SelectSeq(list, HasBlockAndNetwork)

DistinctHeights(list) ==
  \A i, j \in DOMAIN list : list[i].block = list[j].block => i = j

EdgeAscends(e) == HeightOf(e.ancestor) < HeightOf(e.descendant)

EdgeOrdered(e) == HeightOf(e.ancestor) <= HeightOf(e.descendant)

\* C1: for N >= 2 valid observations at pairwise distinct heights the builder
\* returns exactly N-1 edges, each with ancestor height < descendant height,
\* in ascending height order.
C1_EdgesOfDistinctHeights ==
  (built.done /\ Len(ValidIn(observations)) >= 2 /\ DistinctHeights(ValidIn(observations)))
    => LET edges == built.value.networkGenealogies
       IN  /\ built.value.defined
           /\ Len(edges) = Len(ValidIn(observations)) - 1
           /\ \A i \in DOMAIN edges : EdgeAscends(edges[i])
           /\ \A i, j \in DOMAIN edges :
                i < j => /\ HeightOf(edges[i].ancestor) < HeightOf(edges[j].ancestor)
                         /\ HeightOf(edges[i].descendant) < HeightOf(edges[j].descendant)

\* heights 100, 200, 150 give the edges 100->150 then 150->200
C1_Witness ==
  /\ built.done
  /\ observations = <<ValidObservation(1), ValidObservation(3), ValidObservation(2)>>
  /\ <<HeightOf(1), HeightOf(3), HeightOf(2)>> = <<100, 200, 150>>
  /\ built.value.networkGenealogies =
       <<[ancestor |-> 1, descendant |-> 2], [ancestor |-> 2, descendant |-> 3]>>

\* C2: the builder's result on a list equals its result on that list with
\* every undefined or incomplete observation removed, wherever they sit.
C2_IncompleteIgnored ==
  built.done => built.value = internalInputs(ValidIn(observations))

C2_Witness ==
  /\ built.done
  /\ Len(observations) = 3
  /\ HasBlockAndNetwork(observations[1])
  /\ ~HasBlockAndNetwork(observations[2])
  /\ HasBlockAndNetwork(observations[3])
  /\ Len(built.value.networkGenealogies) = 1

\* the builder's answer for the artifacts the orchestrator was given
LocalInputs == internalInputs(artifactNetworksOf(artifacts))

NoValidObservation == Len(ValidIn(artifactNetworksOf(artifacts))) = 0

\* C3: with no valid observation for the target network id no candidate fetch
\* and no chain read is issued, nothing is thrown and the orchestrator returns
\* an empty persisted set.
C3_EmptyInputReturnsEmpty ==
  NoValidObservation =>
    /\ pc \in {"start", "load", "done"}
    /\ error = "none"
    /\ fetches = 0 /\ roundReads = 0
    /\ (pc = "done" => persisted = [done |-> TRUE, count |-> 0])

\* the chain answered the read of candidate c with a block of c's claimed hash
MatchingBlock(response, c) == response.kind = "block" /\ response.hash = HashOf(c)

\* C4: within a round the candidates are chain-read in list order, the first
\* candidate whose chain-read hash equals its claimed hash is returned, and no
\* chain read is issued for a candidate after it.
C4_FirstMatchReturned ==
  [][/\ (pc = "fetch" /\ pc' = "read") => (idx' = 1 /\ roundReads' = 1)
     /\ (pc = "read" /\ pc' # "failed") =>
          LET c == candidates.list[idx]
          IN  /\ roundReads = idx
              /\ candidates' = candidates
              /\ IF MatchingBlock(lastResponse', c)
                   THEN /\ pc' = "return"
                        /\ result' = c
                        /\ idx' = idx /\ roundReads' = roundReads
                   ELSE /\ result' = NoNetwork
                        /\ pc' = "read" => (idx' = idx + 1 /\ roundReads' = roundReads + 1)
                        /\ pc' # "read" => idx = Len(candidates.list)
    ]_vars

\* three candidates, the second matches: two chain reads, the second returned
C4_Witness ==
  /\ pc = "return"
  /\ Len(candidates.list) = 3
  /\ result = candidates.list[2]
  /\ roundReads = 2
  /\ MatchingBlock(lastResponse, candidates.list[2])

\* C5: when the first candidate fetch returns an empty list, findRelation
\* returns no relation after exactly one fetch and zero chain reads.
C5_EmptyFirstFetch ==
  (fetches >= 1 /\ noMatchRounds = 0 /\ fetchOutcome = "ok" /\ candidates.list = <<>>)
    => /\ pc = "return"
       /\ result = NoNetwork
       /\ error = "none"
       /\ fetches = 1
       /\ roundReads = 0

C5_Witness ==
  /\ pc = "return"
  /\ relation = "descendant"
  /\ fetches = 1
  /\ fetchOutcome = "ok"
  /\ candidates.list = <<>>
  /\ result = NoNetwork

\* C6: k rounds of non-empty candidate lists without a hash match followed by
\* an empty list make exactly k+1 candidate fetches, and no relation is
\* returned: while no fetch fails every round without a match is followed by
\* one more fetch, and the empty answer ends the call.
C6_FetchCount ==
  (relation # "none" /\ failedFetches = 0) =>
    /\ pc \in {"fetch", "read", "return"} => fetches = noMatchRounds + 1
    /\ pc \in {"fetch", "read"} => result = NoNetwork
    /\ (fetchOutcome = "ok" /\ candidates.list = <<>> /\ pc # "fetch") =>
         /\ pc = "return"
         /\ result = NoNetwork
         /\ fetches = noMatchRounds + 1

\* k = 1: two fetches
C6_Witness ==
  /\ pc = "return"
  /\ failedFetches = 0
  /\ noMatchRounds = 1
  /\ fetches = 2
  /\ candidates = [set |-> TRUE, list |-> <<>>]
  /\ result = NoNetwork

RemoteAncestorEdge ==
  IF ancestorAncestor # NoNetwork
    THEN <<[ancestor |-> ancestorAncestor, descendant |-> LocalInputs.ancestor]>>
    ELSE <<>>

RemoteDescendantEdge ==
  IF descendantDescendant # NoNetwork
    THEN <<[ancestor |-> LocalInputs.descendant, descendant |-> descendantDescendant]>>
    ELSE <<>>

\* C7 as stated: the submitted list is the remote ancestor edge first, then the
\* local edges, then the remote descendant edge.
C7_AncestorEdgePrepended ==
  submitted.done =>
    submitted.edges =
      RemoteAncestorEdge \o LocalInputs.networkGenealogies \o RemoteDescendantEdge

\* C7 amended: the submitted list is the local edges in ascending order, then
\* the remote ancestor edge when the ancestor search found a relation, then the
\* remote descendant edge when the descendant search found one.
C7_RemoteEdgesAppended ==
  submitted.done =>
    submitted.edges =
      LocalInputs.networkGenealogies \o RemoteAncestorEdge \o RemoteDescendantEdge

C7_Witness ==
  /\ submitted.done
  /\ Len(LocalInputs.networkGenealogies) = 1
  /\ ancestorAncestor # NoNetwork
  /\ descendantDescendant # NoNetwork
  /\ Len(submitted.edges) = 3

\* C8: a failed candidate fetch is swallowed in every round, including the
\* first: the call does not fail and goes on with the candidates last set.
C8_FetchFailureSwallowed ==
  fetchOutcome = "failed" =>
    /\ error = "none"
    /\ pc \in {"fetch", "read", "return"}
    /\ candidates.set

\* C9: a "not found" answer of the chain is a non-match and the finder moves
\* on; an error answer makes the whole call fail and is never a non-match.
C9_FailedLookupIsFatal ==
  /\ lastResponse.kind = "notfound" => (result = NoNetwork /\ pc \in {"fetch", "read", "return"})
  /\ lastResponse.kind = "error" => pc = "failed"

\* C10 as stated: every submitted edge, local or remote, has ancestor height
\* <= descendant height.
C10_AllEdgesOrdered ==
  submitted.done => \A i \in DOMAIN submitted.edges : EdgeOrdered(submitted.edges[i])

\* C10 amended: every local edge submitted has ancestor height <= descendant
\* height; a remote edge has it unless the confirmed candidate lies on the
\* wrong side of the builder's endpoint, which nothing checks.
C10_LocalEdgesOrdered ==
  submitted.done =>
    LET nLocal == Len(LocalInputs.networkGenealogies)
        nAncestor == Len(RemoteAncestorEdge)
    IN  \A i \in DOMAIN submitted.edges :
          \/ EdgeOrdered(submitted.edges[i])
          \/ /\ i = nLocal + 1 /\ nAncestor = 1
             /\ submitted.edges[i].ancestor = ancestorAncestor
             /\ HeightOf(ancestorAncestor) > HeightOf(ancestor)
          \/ /\ i = nLocal + nAncestor + 1
             /\ submitted.edges[i].descendant = descendantDescendant
             /\ HeightOf(descendantDescendant) < HeightOf(descendant)

C10_Witness ==
  /\ submitted.done
  /\ Len(LocalInputs.networkGenealogies) = 1
  /\ ancestorAncestor # NoNetwork
  /\ Len(submitted.edges) = 2
  /\ \A i \in DOMAIN submitted.edges : EdgeAscends(submitted.edges[i])

\* this step yields a request of the given type
Yields(type) ==
  /\ outstanding' # outstanding
  /\ outstanding' # <<>>
  /\ outstanding'[Len(outstanding')].type = type

AnsweredType == IF outstanding = <<>> THEN "none" ELSE outstanding[1].type

\* C11: at most one request is outstanding at a time; a round is one candidate
\* fetch followed by its chain reads; the ancestor search has returned before
\* the descendant search issues a request; the one load is issued only after
\* both searches have returned.
C11_StrictSequencing ==
  [][/\ Len(outstanding) <= 1 /\ Len(outstanding') <= 1
     /\ Yields("web3") => AnsweredType \in {"get", "web3"}
     /\ Yields("get") =>
          \/ AnsweredType = "web3"
          \/ /\ AnsweredType = "none"
             /\ outstanding'[1].relation = "ancestor" => pc = "start"
             /\ outstanding'[1].relation = "descendant" =>
                  (pc = "return" /\ relation = "ancestor")
     /\ (relation' = "descendant" /\ relation # "descendant") =>
          (pc = "return" /\ relation = "ancestor" /\ outstanding = <<>>)
     /\ Yields("load") =>
          /\ pc = "return" /\ relation = "descendant"
          /\ outstanding = <<>>
          /\ ~submitted.done
    ]_vars

C11_Witness ==
  /\ pc = "load"
  /\ outstanding = <<loadRequest>>
  /\ ancestorAncestor # NoNetwork
  /\ descendantDescendant # NoNetwork

\* C12: with 0 or 1 valid observations the builder produces no edges; it
\* returns undefined exactly when fewer than one valid observation remains.
C12_SmallInputs ==
  built.done =>
    /\ Len(ValidIn(observations)) <= 1 => built.value.networkGenealogies = <<>>
    /\ ~built.value.defined <=> Len(ValidIn(observations)) < 1

C12_Witness ==
  /\ built.done
  /\ Len(observations) = 2
  /\ Len(ValidIn(observations)) = 1
  /\ built.value.defined
  /\ built.value.networkGenealogies = <<>>

\* C17: the chain holds each network at most once, so no local edge has the
\* same network as ancestor and descendant, also when one network is observed
\* by several artifacts; edges link only members adjacent in ascending height.
C17_ChainOfDistinctNetworks ==
  built.done =>
    LET edges == built.value.networkGenealogies
    IN  /\ \A i \in DOMAIN edges : edges[i].ancestor # edges[i].descendant
        /\ \A i, j \in DOMAIN edges : edges[i].descendant = edges[j].descendant => i = j
        /\ \A i \in DOMAIN edges :
             ~\E o \in {ValidIn(observations)[k] : k \in DOMAIN ValidIn(observations)} :
                /\ HeightOf(edges[i].ancestor) < o.block
                /\ o.block < HeightOf(edges[i].descendant)

IsValidNetwork(n) ==
  \E k \in DOMAIN ValidIn(observations) : ValidIn(observations)[k].network = n

\* C18: in a non-empty builder result `ancestor` is the valid observation's
\* network of lowest height and `descendant` the one of highest height, the
\* first edge starts at `ancestor`, the last edge ends at `descendant`, each
\* edge's descendant is the next edge's ancestor, and with exactly one valid
\* observation `ancestor` and `descendant` are the same network.
C18_EndpointsAndContiguity ==
  (built.done /\ built.value.defined) =>
    LET edges == built.value.networkGenealogies
        valid == ValidIn(observations)
    IN  /\ IsValidNetwork(built.value.ancestor)
        /\ IsValidNetwork(built.value.descendant)
        /\ \A k \in DOMAIN valid :
             /\ HeightOf(built.value.ancestor) <= valid[k].block
             /\ valid[k].block <= HeightOf(built.value.descendant)
        /\ edges # <<>> =>
             /\ edges[1].ancestor = built.value.ancestor
             /\ edges[Len(edges)].descendant = built.value.descendant
        /\ \A i \in 1..(Len(edges) - 1) : edges[i].descendant = edges[i + 1].ancestor
        /\ Len(valid) = 1 =>
             /\ built.value.ancestor = valid[1].network
             /\ built.value.descendant = valid[1].network

C18_Witness ==
  /\ built.done
  /\ Len(ValidIn(observations)) = 3
  /\ DistinctHeights(ValidIn(observations))
  /\ built.value.ancestor = 1
  /\ built.value.descendant = 3
  /\ Len(built.value.networkGenealogies) = 2

\* C13: when every candidate fetch succeeds, never returns a candidate of the
\* exclusion list it was sent and answers with an exclusion list grown by the
\* candidates it returned, every call of findRelation ends: it returns, with a
\* relation or with none, unless a chain read throws out of it.
C13_FindRelationTerminates ==
  (pc \in {"fetch", "read"}) ~> (pc = "return" \/ (pc = "failed" /\ error = "chain"))

C13_Witness ==
  /\ pc = "return"
  /\ result = NoNetwork
  /\ candidates = [set |-> TRUE, list |-> <<>>]
  /\ noMatchRounds = MaxFetches
  /\ fetches = MaxFetches
  /\ alreadyTried = NetIds

\* While a fetch is outstanding after a round, every member of `candidates`
\* has been chain-read in that round without a match.
\* C14: a candidate whose chain-read hash did not match is never chain-read
\* again in the same call, also when a later candidate fetch fails: the chain
\* read issued after a failed fetch is not for a candidate of the round before.
C14_NoRevalidation ==
  [][(pc = "fetch" /\ fetchOutcome' = "failed" /\ Yields("web3")) =>
       \A k \in DOMAIN candidates.list :
         outstanding'[1].height # HeightOf(candidates.list[k])
    ]_vars

\* a round with a non-empty candidate list and no match is over
AfterNoMatchRound == noMatchRounds >= 1

\* C15: after a round with a non-empty candidate list and no hash match, if
\* every later fetch fails and the chain keeps answering the same, the call
\* never returns: it stays in the loop with the same candidates and reads the
\* first of them again in round after round.
C15_LoopsForever ==
  /\ [](AfterNoMatchRound => [](pc \in {"fetch", "read"} /\ result = NoNetwork))
  /\ [](AfterNoMatchRound => []<>(pc = "read" /\ idx = 1 /\ fetchOutcome = "failed"))
  /\ [][AfterNoMatchRound => (candidates' = candidates /\ candidates.list # <<>>)]_vars

C15_Witness ==
  /\ pc = "read"
  /\ idx = 1
  /\ fetchOutcome = "failed"
  /\ failedFetches = MaxFetches
  /\ noMatchRounds = MaxFetches
  /\ Len(candidates.list) = 2

ValidatedResult ==
  /\ candidates.set
  /\ idx \in DOMAIN candidates.list
  /\ result = candidates.list[idx]
  /\ roundReads = idx
  /\ lastResponse.kind = "block"
  /\ lastResponse.hash = HashOf(result)

\* C20: whenever findRelation returns a network, it is a member of the
\* candidate list of the final round and the chain read at its claimed height
\* in that round returned a block with its claimed hash; the remote edge the
\* orchestrator adds references such a validated candidate and nothing else.
C20_ReturnedRelationValidated ==
  [][/\ (pc' = "return" /\ result' # NoNetwork) => ValidatedResult'
     /\ (pc = "read" /\ pc' = "return" /\ result' # NoNetwork) =>
          /\ outstanding = <<web3Request(result')>>
          /\ candidates' = candidates
     /\ networkGenealogies' # networkGenealogies =>
          \/ pc = "start"
          \/ /\ pc = "return" /\ ValidatedResult
             /\ relation = "ancestor" =>
                  networkGenealogies' =
                    Append(networkGenealogies, [ancestor |-> result, descendant |-> ancestor])
             /\ relation = "descendant" =>
                  networkGenealogies' =
                    Append(networkGenealogies, [ancestor |-> descendant, descendant |-> result])
    ]_vars

C20_Witness ==
  /\ pc = "load"
  /\ descendantDescendant # NoNetwork
  /\ ancestorAncestor = NoNetwork
  /\ submitted.edges = <<[ancestor |-> descendant, descendant |-> descendantDescendant]>>

IsPrefix(p, q) == Len(p) <= Len(q) /\ SubSeq(q, 1, Len(p)) = p

Alone(i) == runAlone(NewRun(runs[i].network), {}, onChain, pageSize, MaxSteps)

\* C19: two computations resumed in any order against stateless deterministic
\* collaborators each issue the requests, exclusion lists included, that they
\* issue when run alone, and return the same result; the exclusion list of
\* one is not seen by the other.
C19_IndependentComputations ==
  \A i \in DOMAIN runs :
    /\ Alone(i).pc = "done"
    /\ IsPrefix(runs[i].requests, Alone(i).requests)
    /\ runs[i].pc = "done" =>
         /\ runs[i].requests = Alone(i).requests
         /\ runs[i].networkGenealogies = Alone(i).networkGenealogies
         /\ runs[i].persisted = Alone(i).persisted

\* both are done, each after a second fetch sent with its own exclusion list
C19_Witness ==
  /\ runs # <<>>
  /\ \A i \in DOMAIN runs :
       /\ runs[i].pc = "done"
       /\ \E k \in DOMAIN runs[i].requests :
            /\ runs[i].requests[k].type = "get"
            /\ runs[i].requests[k].alreadyTried # <<>>
  /\ cells[1] # cells[2]

====
